---- MODULE Spec2Model ----
(***************************************************************************)
(* Masked running normalizer (padertorch.contrib.je.modules.norm): Norm,   *)
(* Shift, Scale and ConditionedNorm.                                       *)
(*                                                                         *)
(* Numbers.  A float is modelled as an exact rational <<num, den>> in      *)
(* lowest terms with den > 0, or as NaN == <<0, 0>>, the result of 0/0.    *)
(* The quotient x / (sqrt(var) + eps) is kept symbolic: a tensor entry     *)
(* after the division step is a record [a, v, b, div] standing for         *)
(* a / (sqrt(v) + eps) + b when div, and for a + b (kept in a, b = 0)      *)
(* otherwise.                                                              *)
(*                                                                         *)
(* Tensors.  A tensor is [shape |-> <<d1, ..., dk>>, val |-> f] with f a   *)
(* function on the index tuples <<i1, ..., ik>>, 0 <= ij < dj.  Axis       *)
(* numbers are 0-based as in the source; shape[ax + 1] is the extent of    *)
(* axis ax.                                                                *)
(***************************************************************************)
EXTENDS Integers, Sequences, FiniteSets, TLC

\* ------------------------------------------------------------- bounds ----
NumBatches == 6    \* batches (input, lengths) a forward call draws from
MaxCalls == 2      \* forward calls explored per behaviour
NFreeze == 3       \* the freeze threshold of a Norm built with n_freeze
MaxTime == 3       \* extent of the sequence axis where lengths are enumerated
MaxCondCalls == 1  \* forward calls of a ConditionedNorm explored per behaviour

\* ------------------------------------------------------------ scalars ----
RECURSIVE Gcd(_, _)
Gcd(a, b) == IF b = 0 THEN a ELSE Gcd(b, a % b)

Abs(n) == IF n < 0 THEN -n ELSE n

NaN == <<0, 0>>
IsNaN(q) == q[2] = 0

\* the float n/d (d # 0 unless n = 0: only 0/0 arises in this code)
Rat(n, d) ==
    IF d = 0 THEN NaN
    ELSE LET g == Gcd(Abs(n), Abs(d))
             s == IF d < 0 THEN -1 ELSE 1
         IN  <<(s * n) \div g, (s * d) \div g>>

Num(n) == <<n, 1>>
Zero == Num(0)
One == Num(1)

\* sums over the least common denominator, to keep the integers small
RAdd(p, q) == IF IsNaN(p) \/ IsNaN(q) THEN NaN
              ELSE LET g == Gcd(p[2], q[2])
                   IN  Rat(p[1] * (q[2] \div g) + q[1] * (p[2] \div g),
                           p[2] * (q[2] \div g))
RSub(p, q) == RAdd(p, IF IsNaN(q) THEN NaN ELSE <<-q[1], q[2]>>)
RMul(p, q) == IF IsNaN(p) \/ IsNaN(q) THEN NaN
              ELSE Rat(p[1] * q[1], p[2] * q[2])
\* p / q; the only zero divisor the code can meet is 0/0 (nan)
RDiv(p, q) == IF IsNaN(p) \/ IsNaN(q) THEN NaN
              ELSE Rat(p[1] * q[2], p[2] * q[1])
\* torch.max of two floats: nan propagates
RMax(p, q) == IF IsNaN(p) \/ IsNaN(q) THEN NaN
              ELSE IF p[1] * q[2] >= q[1] * p[2] THEN p ELSE q
RLess(p, q) == ~IsNaN(p) /\ ~IsNaN(q) /\ p[1] * q[2] < q[1] * p[2]
RGeq(p, q) == ~IsNaN(p) /\ ~IsNaN(q) /\ p[1] * q[2] >= q[1] * p[2]

\* ------------------------------------------------------------ tensors ----
Range(n) == 0 .. (n - 1)

\* all index tuples of a shape
RECURSIVE Idx(_)
Idx(shape) ==
    IF shape = <<>> THEN {<<>>}
    ELSE {<<i>> \o r : i \in Range(Head(shape)), r \in Idx(Tail(shape))}

Tensor(shape, val) == [shape |-> shape, val |-> val]
Dim(x) == Len(x.shape)
Full(shape, c) == Tensor(shape, [i \in Idx(shape) |-> c])

\* x.unsqueeze(-1)
Unsqueeze(x) ==
    Tensor(x.shape \o <<1>>,
           [i \in Idx(x.shape \o <<1>>) |-> x.val[SubSeq(i, 1, Len(i) - 1)]])

RECURSIVE UnsqueezeN(_, _)
UnsqueezeN(x, n) == IF n <= 0 THEN x ELSE UnsqueezeN(Unsqueeze(x), n - 1)

\* broadcasting (trailing axes aligned, missing leading axes count as 1)
Pad(shape, k) == [j \in 1 .. k |-> 1] \o shape
Broadcastable(sa, sb) ==
    LET r == IF Len(sa) > Len(sb) THEN Len(sa) ELSE Len(sb)
        pa == Pad(sa, r - Len(sa))
        pb == Pad(sb, r - Len(sb))
    IN  \A j \in 1 .. r : pa[j] = pb[j] \/ pa[j] = 1 \/ pb[j] = 1
BroadcastShape(sa, sb) ==
    LET r == IF Len(sa) > Len(sb) THEN Len(sa) ELSE Len(sb)
        pa == Pad(sa, r - Len(sa))
        pb == Pad(sb, r - Len(sb))
    IN  [j \in 1 .. r |-> IF pa[j] = 1 THEN pb[j] ELSE pa[j]]
\* the entry of x read at index i of a broadcast result
At(x, i) ==
    LET off == Len(i) - Dim(x)
    IN  x.val[[j \in 1 .. Dim(x) |->
                  IF x.shape[j] = 1 THEN 0 ELSE i[j + off]]]
\* x + y, x - y, x * y, x / y, torch.max(x, y), (x < y).float()
Add(x, y) ==
    LET s == BroadcastShape(x.shape, y.shape)
    IN  Tensor(s, [i \in Idx(s) |-> RAdd(At(x, i), At(y, i))])
Sub(x, y) ==
    LET s == BroadcastShape(x.shape, y.shape)
    IN  Tensor(s, [i \in Idx(s) |-> RSub(At(x, i), At(y, i))])
Mul(x, y) ==
    LET s == BroadcastShape(x.shape, y.shape)
    IN  Tensor(s, [i \in Idx(s) |-> RMul(At(x, i), At(y, i))])
Div(x, y) ==
    LET s == BroadcastShape(x.shape, y.shape)
    IN  Tensor(s, [i \in Idx(s) |-> RDiv(At(x, i), At(y, i))])
Max(x, y) ==
    LET s == BroadcastShape(x.shape, y.shape)
    IN  Tensor(s, [i \in Idx(s) |-> RMax(At(x, i), At(y, i))])
Lt(x, y) ==
    LET s == BroadcastShape(x.shape, y.shape)
    IN  Tensor(s, [i \in Idx(s) |->
                      IF RLess(At(x, i), At(y, i)) THEN One ELSE Zero])
\* the scalar c as a tensor
Scalar(c) == Full(<<>>, c)

\* x.expand(shape)
Expandable(x, shape) ==
    /\ Dim(x) <= Len(shape)
    /\ LET p == Pad(x.shape, Len(shape) - Dim(x))
       IN  \A j \in 1 .. Len(shape) : p[j] = shape[j] \/ p[j] = 1
Expand(x, shape) == Tensor(shape, [i \in Idx(shape) |-> At(x, i)])

\* x.sum(dim=axes, keepdim=True) with qualifying entries added by Add
ReducedShape(shape, axes) ==
    [j \in 1 .. Len(shape) |-> IF (j - 1) \in axes THEN 1 ELSE shape[j]]
RECURSIVE SumSet(_, _)
SumSet(f, S) ==
    IF S = {} THEN Zero
    ELSE LET e == CHOOSE e \in S : TRUE IN RAdd(f[e], SumSet(f, S \ {e}))
SumKeep(x, axes) ==
    Tensor(ReducedShape(x.shape, axes),
           [r \in Idx(ReducedShape(x.shape, axes)) |->
               SumSet(x.val,
                   {i \in Idx(x.shape) :
                       \A j \in 1 .. Len(i) : (j - 1) \in axes \/ i[j] = r[j]})])

\* ------------------------------------------------- entries after sqrt ----
\* a / (sqrt(v) + eps) + b (div), or the float a (~div); NaN once any part is
NaNV == [a |-> NaN, v |-> Zero, b |-> Zero, div |-> FALSE]
MkV(a, v, b, div) ==
    IF IsNaN(a) \/ IsNaN(b) \/ (div /\ (IsNaN(v) \/ RLess(v, Zero))) THEN NaNV
    ELSE IF ~div \/ a = Zero THEN [a |-> RAdd(a, b), v |-> Zero, b |-> Zero, div |-> FALSE]
    ELSE [a |-> a, v |-> v, b |-> b, div |-> TRUE]
LiftV(q) == MkV(q, Zero, Zero, FALSE)
ZeroV == LiftV(Zero)
\* q / (torch.sqrt(var) + eps): sqrt of a negative number or of nan is nan
QuotV(q, var) == MkV(q, var, Zero, TRUE)
VMulS(e, s) == MkV(RMul(e.a, s), e.v, RMul(e.b, s), e.div)
VSubS(e, s) == MkV(e.a, e.v, RSub(e.b, s), e.div)
IsNaNV(e) == IsNaN(e.a)
\* x as a tensor of such entries; x / (torch.sqrt(var) + eps); x * s; x - s
Lift(x) == Tensor(x.shape, [i \in Idx(x.shape) |-> LiftV(x.val[i])])
DivSqrt(x, var) ==
    LET s == BroadcastShape(x.shape, var.shape)
    IN  Tensor(s, [i \in Idx(s) |-> QuotV(At(x, i), At(var, i))])
MulV(x, y) ==
    LET s == BroadcastShape(x.shape, y.shape)
    IN  Tensor(s, [i \in Idx(s) |-> VMulS(At(x, i), At(y, i))])
SubV(x, y) ==
    LET s == BroadcastShape(x.shape, y.shape)
    IN  Tensor(s, [i \in Idx(s) |-> VSubS(At(x, i), At(y, i))])

\* ----------------------------------------------------------------- Norm ----
None == <<>>
NoneT == [shape |-> <<0>>, val |-> <<>>]

\* data_format.index(ax): 0-based position of the first occurrence
IndexOf(data_format, ax) ==
    (CHOOSE j \in 1 .. Len(data_format) :
        data_format[j] = ax /\ \A k \in 1 .. (j - 1) : data_format[k] # ax) - 1
Occurs(data_format, ax) == \E j \in 1 .. Len(data_format) : data_format[j] = ax

\* Shift.__init__ / Scale.__init__: the shape of the parameter
ParamShape(shape, data_format, independent_axis) ==
    [j \in 1 .. Len(data_format) |->
        IF \E k \in 1 .. Len(independent_axis) :
               IndexOf(data_format, independent_axis[k]) = j - 1
        THEN shape[j] ELSE 1]

\* mutant: tracking whenever the batch axis is an axis of the layout
TrackAlways(batch_axis, statistics_axis) ==
    TRUE

\* Norm.__init__, line 143: batch_axis in statistics_axis
TrackRunningStats(batch_axis, statistics_axis) ==
    \E k \in 1 .. Len(statistics_axis) : statistics_axis[k] = batch_axis

\* Norm.__init__ (shape entries: an extent, or 0 for None)
NewNorm(data_format, shape, statistics_axis, independent_axis, batch_axis, sequence_axis, scale, momentum, n_freeze) ==
    LET stat == {IndexOf(data_format, statistics_axis[k]) :
                     k \in 1 .. Len(statistics_axis)}
        track == TrackRunningStats(batch_axis, statistics_axis)
        reduced_shape == ReducedShape(shape, stat)
    IN  [data_format |-> data_format,
         batch_axis |-> IndexOf(data_format, batch_axis),
         sequence_axis |-> IndexOf(data_format, sequence_axis),
         statistics_axis |-> stat,
         scale |-> scale,
         track_running_stats |-> track,
         num_tracked_values |-> IF track THEN Full(reduced_shape, Zero) ELSE NoneT,
         running_mean |-> IF track THEN Full(reduced_shape, Zero) ELSE NoneT,
         running_power |-> IF track /\ scale THEN Full(reduced_shape, One) ELSE NoneT,
         momentum |-> momentum,
         learnable_scale |->
             IF independent_axis # None
             THEN Full(ParamShape(shape, data_format, independent_axis), One)
             ELSE NoneT,
         learnable_shift |->
             IF independent_axis # None
             THEN Full(ParamShape(shape, data_format, independent_axis), Zero)
             ELSE NoneT,
         n_freeze |-> n_freeze]

\* Norm.__init__, lines 144-154: the exception raised while the buffers of a
\* tracking Norm are built from shape ("none": no exception)
BufferError(data_format, shape, statistics_axis) ==
    IF \E k \in 1 .. Len(statistics_axis) :
           IndexOf(data_format, statistics_axis[k]) >= Len(shape)
    THEN "IndexError"
    ELSE IF \E j \in 1 .. Len(shape) :
                /\ shape[j] = 0
                /\ \A k \in 1 .. Len(statistics_axis) :
                       IndexOf(data_format, statistics_axis[k]) # j - 1
    THEN "AssertionError"
    ELSE "none"

\* mutant: the size of an independent axis is not looked at
ParamErrorUnchecked(data_format, shape, independent_axis, k) ==
    IF \E j \in k .. Len(independent_axis) : ~Occurs(data_format, independent_axis[j])
    THEN "ValueError"
    ELSE "none"

\* Shift.__init__ / Scale.__init__: the exception raised for the k-th
\* independent axis and the ones after it ("none": no exception)
RECURSIVE ParamError(_, _, _, _)
ParamError(data_format, shape, independent_axis, k) ==
    IF k > Len(independent_axis) THEN "none"
    ELSE IF ~Occurs(data_format, independent_axis[k]) THEN "ValueError"
    ELSE IF IndexOf(data_format, independent_axis[k]) >= Len(shape) THEN "IndexError"
    ELSE IF shape[IndexOf(data_format, independent_axis[k]) + 1] = 0 THEN "AssertionError"
    ELSE ParamError(data_format, shape, independent_axis, k + 1)

\* Norm.__init__: the exception construction ends with ("none": it succeeds);
\* batch_axis and sequence_axis are strings of one character, or None
InitError(data_format, shape, statistics_axis, independent_axis, batch_axis, sequence_axis) ==
    IF ~Occurs(data_format, batch_axis[1]) THEN "ValueError"
    ELSE IF sequence_axis = None THEN "AttributeError"
    ELSE IF ~Occurs(data_format, sequence_axis[1]) THEN "ValueError"
    ELSE IF \E k \in 1 .. Len(statistics_axis) : ~Occurs(data_format, statistics_axis[k])
    THEN "ValueError"
    ELSE IF /\ TrackRunningStats(batch_axis[1], statistics_axis)
            /\ BufferError(data_format, shape, statistics_axis) # "none"
    THEN BufferError(data_format, shape, statistics_axis)
    ELSE IF independent_axis # None
    THEN ParamError(data_format, shape, independent_axis, 1)
    ELSE "none"


\* num_tracked_values.max().item()
MaxOf(x) == CHOOSE m \in {x.val[i] : i \in DOMAIN x.val} :
                \A i \in DOMAIN x.val : RGeq(m, x.val[i])

\* mutant: frozen only once the count exceeds the threshold
FreezedStrict(self) ==
    /\ self.n_freeze # None
    /\ self.track_running_stats
    /\ ~RGeq(Num(self.n_freeze[1]), MaxOf(self.num_tracked_values))

\* Norm.freezed
Freezed(self) ==
    /\ self.n_freeze # None
    /\ self.track_running_stats
    /\ RGeq(MaxOf(self.num_tracked_values), Num(self.n_freeze[1]))

\* mutant: position t valid up to and including t = length
ComputeMaskLenInclusive(self, x, seq_len) ==
    LET sl == UnsqueezeN([shape |-> <<Len(seq_len)>>,
                          val |-> [i \in Idx(<<Len(seq_len)>>) |-> Num(seq_len[i[1] + 1])]],
                         Dim(x) - (self.batch_axis + 1))
        n == x.shape[self.sequence_axis + 1]
        idx == UnsqueezeN([shape |-> <<n>>,
                           val |-> [i \in Idx(<<n>>) |-> Num(i[1])]],
                          Dim(x) - (self.sequence_axis + 1))
        lt == Lt(idx, Add(sl, Scalar(One)))
    IN  Expand(lt, x.shape)

\* Norm.compute_mask with seq_len given (a sequence of integers)
ComputeMaskLen(self, x, seq_len) ==
    LET sl == UnsqueezeN([shape |-> <<Len(seq_len)>>,
                          val |-> [i \in Idx(<<Len(seq_len)>>) |-> Num(seq_len[i[1] + 1])]],
                         Dim(x) - (self.batch_axis + 1))
        n == x.shape[self.sequence_axis + 1]
        idx == UnsqueezeN([shape |-> <<n>>,
                           val |-> [i \in Idx(<<n>>) |-> Num(i[1])]],
                          Dim(x) - (self.sequence_axis + 1))
        lt == Lt(idx, sl)
    IN  Expand(lt, x.shape)

\* Norm.compute_mask
ComputeMask(self, x, seq_len) ==
    IF seq_len # None THEN ComputeMaskLen(self, x, seq_len)
    ELSE Full(x.shape, One)

\* mutant: division by n itself
ComputeStatsUnguarded(self, x, mask) ==
    LET n_values == SumKeep(mask, self.statistics_axis)
        xm == Mul(x, mask)
        mean == Div(SumKeep(xm, self.statistics_axis), n_values)
        power == Div(SumKeep(Mul(xm, xm),
                                    self.statistics_axis), n_values)
    IN  [mean |-> mean,
         power |-> IF ~self.scale THEN NoneT ELSE power,
         n_values |-> n_values]

\* Norm.compute_stats: [mean, power, n_values]
ComputeStats(self, x, mask) ==
    LET n_values == SumKeep(mask, self.statistics_axis)
        xm == Mul(x, mask)
        den == Max(n_values, Full(n_values.shape, One))
        mean == Div(SumKeep(xm, self.statistics_axis), den)
        power == Div(SumKeep(Mul(xm, xm),
                                    self.statistics_axis), den)
    IN  [mean |-> mean,
         power |-> IF ~self.scale THEN NoneT ELSE power,
         n_values |-> n_values]

\* n / (n - 1.) * (power - mean ** 2) with n = max(count, 2)
Variance(count, power, mean) ==
    LET n == Max(count, Full(count.shape, Num(2)))
        f == Div(n, Sub(n, Scalar(One)))
    IN  Mul(f, Sub(power, Mul(mean, mean)))

\* mutant: the count advanced by one per call, as a counter of batches
UpdateStatsCountCalls(self, st) ==
    LET count == Add(self.num_tracked_values, Scalar(One))
        momentum == IF self.momentum = None
                    THEN Sub(Scalar(One), Div(st.n_values, count))
                    ELSE Scalar(self.momentum)
        blend(run, new) ==
            Add(Mul(run, momentum),
                 Mul(Sub(Scalar(One), momentum), new))
    IN  [self EXCEPT
            !.num_tracked_values = count,
            !.running_mean = blend(self.running_mean, st.mean),
            !.running_power = IF self.scale THEN blend(self.running_power, st.power)
                              ELSE self.running_power]

\* mutant: the adaptive momentum taken from the count before the call's n
\* is added
UpdateStatsCountBefore(self, st) ==
    LET count == Add(self.num_tracked_values, st.n_values)
        momentum == IF self.momentum = None
                    THEN Sub(Scalar(One),
                             Div(st.n_values,
                                 Max(self.num_tracked_values, st.n_values)))
                    ELSE Scalar(self.momentum)
        blend(run, new) ==
            Add(Mul(run, momentum),
                 Mul(Sub(Scalar(One), momentum), new))
    IN  [self EXCEPT
            !.num_tracked_values = count,
            !.running_mean = blend(self.running_mean, st.mean),
            !.running_power = IF self.scale THEN blend(self.running_power, st.power)
                              ELSE self.running_power]

\* mutant: the weights of the old and the new value exchanged
UpdateStatsSwapped(self, st) ==
    LET count == Add(self.num_tracked_values, st.n_values)
        momentum == IF self.momentum = None
                    THEN Sub(Scalar(One), Div(st.n_values, count))
                    ELSE Scalar(self.momentum)
        blend(run, new) ==
            Add(Mul(new, momentum),
                 Mul(Sub(Scalar(One), momentum), run))
    IN  [self EXCEPT
            !.num_tracked_values = count,
            !.running_mean = blend(self.running_mean, st.mean),
            !.running_power = IF self.scale THEN blend(self.running_power, st.power)
                              ELSE self.running_power]

\* Norm.forward, lines 210-220: the accumulators after an estimate call
UpdateStats(self, st) ==
    LET count == Add(self.num_tracked_values, st.n_values)
        momentum == IF self.momentum = None
                    THEN Sub(Scalar(One), Div(st.n_values, count))
                    ELSE Scalar(self.momentum)
        blend(run, new) ==
            Add(Mul(run, momentum),
                 Mul(Sub(Scalar(One), momentum), new))
    IN  [self EXCEPT
            !.num_tracked_values = count,
            !.running_mean = blend(self.running_mean, st.mean),
            !.running_power = IF self.scale THEN blend(self.running_power, st.power)
                              ELSE self.running_power]

\* Norm.reset_running_stats: [self |-> the Norm afterwards, raised |-> whether
\* running_power.fill_ was called on None]
ScaleIsNotNone(self) == self.scale \in BOOLEAN
ResetRunningStats(self) ==
    IF self.track_running_stats
    THEN LET z == [self EXCEPT
                      !.running_mean = Full(self.running_mean.shape, Zero),
                      !.num_tracked_values =
                          Full(self.num_tracked_values.shape, Zero)]
         IN  IF ScaleIsNotNone(self)
             THEN IF self.running_power = NoneT
                  THEN [self |-> z, raised |-> TRUE]
                  ELSE [self |-> [z EXCEPT !.running_power =
                                     Full(self.running_power.shape, One)],
                        raised |-> FALSE]
             ELSE [self |-> z, raised |-> FALSE]
    ELSE [self |-> self, raised |-> FALSE]

\* Norm.reset_parameters
ResetParameters(self) ==
    LET r == ResetRunningStats(self)
    IN  IF r.raised THEN r
        ELSE [self |-> [r.self EXCEPT
                  !.learnable_scale =
                      IF self.learnable_scale # NoneT
                      THEN Full(self.learnable_scale.shape, One) ELSE NoneT,
                  !.learnable_shift =
                      IF self.learnable_shift # NoneT
                      THEN Full(self.learnable_shift.shape, Zero) ELSE NoneT],
              raised |-> FALSE]

\* mutant: the phase is not looked at
EstimatesInEveryPhase(self, training) ==
    ~Freezed(self) \/ ~self.track_running_stats

\* Norm.forward, line 203
Estimates(self, training) ==
    (training /\ ~Freezed(self)) \/ ~self.track_running_stats

\* Norm.forward, lines 230-234: affine step and final mask
Affine(self, y, mask) ==
    LET s1 == IF self.learnable_scale # NoneT
              THEN MulV(y, self.learnable_scale) ELSE y
        s2 == IF self.learnable_shift # NoneT
              THEN SubV(s1, self.learnable_shift) ELSE s1
    IN  MulV(s2, mask)

\* Norm.forward, lines 205-209 and 222-228: x centered with mean and, if
\* scale, divided by sqrt(var) + eps, var from count, power and mean
Normalized(self, x, mean, count, power) ==
    IF self.scale THEN DivSqrt(Sub(x, mean), Variance(count, power, mean))
    ELSE Lift(Sub(x, mean))

\* Norm.forward, lines 204-220: the estimate branch with st the per-call
\* statistics
Estimate(self, x, mask, st) ==
    [self |-> IF self.track_running_stats THEN UpdateStats(self, st) ELSE self,
     out |-> Affine(self, Normalized(self, x, st.mean, st.n_values, st.power), mask)]

\* Norm.forward, lines 222-228: the replay branch
Replay(self, x, mask) ==
    [self |-> self,
     out |-> Affine(self,
                    Normalized(self, x, self.running_mean,
                               self.num_tracked_values, self.running_power),
                    mask)]

\* Norm.forward, lines 203-234, with the mask of line 202
ForwardMasked(self, training, x, mask) ==
    IF Estimates(self, training)
    THEN Estimate(self, x, mask, ComputeStats(self, x, mask))
    ELSE Replay(self, x, mask)

\* Norm.forward: [self |-> the Norm afterwards, out |-> the returned tensor]
Forward(self, training, x, seq_len) ==
    ForwardMasked(self, training, x, ComputeMask(self, x, seq_len))

\* ------------------------------------------------------ ConditionedNorm ----
\* x[idx]: the rows of x (axis 0) listed in idx
Rows(x, idx) ==
    Tensor(<<Len(idx)>> \o Tail(x.shape),
           [i \in Idx(<<Len(idx)>> \o Tail(x.shape)) |->
               x.val[<<idx[i[1] + 1]>> \o Tail(i)]])
\* torch.cat((x, y), dim=0)
Cat(x, y) ==
    Tensor(<<x.shape[1] + y.shape[1]>> \o Tail(x.shape),
           [i \in Idx(<<x.shape[1] + y.shape[1]>> \o Tail(x.shape)) |->
               IF i[1] < x.shape[1] THEN x.val[i]
               ELSE y.val[<<i[1] - x.shape[1]>> \o Tail(i)]])
\* seq[idx] for a sequence and 0-based positions
Take(seq, idx) == [j \in 1 .. Len(idx) |-> seq[idx[j] + 1]]

\* np.argsort(conditions): the default sort is not stable, every permutation
\* that orders the conditions is a possible result
ArgSort(conditions) ==
    LET n == Len(conditions)
    IN  {p \in [1 .. n -> 0 .. (n - 1)] :
            /\ \A j, k \in 1 .. n : j # k => p[j] # p[k]
            /\ \A j, k \in 1 .. n :
                  j < k => conditions[p[j] + 1] <= conditions[p[k] + 1]}

\* np.argwhere(conditions == c).flatten()
ArgWhere(conditions, c) ==
    LET S == {j \in 1 .. Len(conditions) : conditions[j] = c}
    IN  CHOOSE f \in [1 .. Cardinality(S) -> 0 .. (Len(conditions) - 1)] :
            /\ \A j \in 1 .. Cardinality(S) : (f[j] + 1) \in S
            /\ \A j, k \in 1 .. Cardinality(S) : j < k => f[j] < f[k]

\* ConditionedNorm.__init__
NewConditionedNorm(n_conditions, data_format, shape, statistics_axis, independent_axis, scale, momentum) ==
    [n_conditions |-> n_conditions,
     norms |-> [c \in 1 .. n_conditions |->
                   NewNorm(data_format, shape, statistics_axis, None, "b", "t",
                           scale, momentum, None)],
     learnable_scale |->
         IF independent_axis # None
         THEN Full(ParamShape(shape, data_format, independent_axis), One)
         ELSE NoneT,
     learnable_shift |->
         IF independent_axis # None
         THEN Full(ParamShape(shape, data_format, independent_axis), Zero)
         ELSE NoneT]

\* ConditionedNorm.forward, lines 347-350: the call of one condition's Norm
\* on its rows
GroupForward(self, train, x, seq_len, idx_array) ==
    Forward(self, train, Rows(x, idx_array),
            IF seq_len = None THEN None ELSE Take(seq_len, idx_array))

\* ConditionedNorm.forward, lines 345-354: torch.cat of one output and the
\* outputs of the later conditions
CondJoin(out_c, rest) ==
    [norms |-> rest.norms,
     out |-> IF rest.out = NoneT THEN out_c ELSE Cat(out_c, rest.out)]

\* ConditionedNorm.forward, lines 341-354: the per-condition calls from
\* condition c on, in ascending order, and their concatenated outputs;
\* CondNext continues after the call r of condition c
RECURSIVE CondLoop(_, _, _, _, _, _)
RECURSIVE CondNext(_, _, _, _, _, _, _)
CondLoop(norms, train, x, seq_len, conditions, c) ==
    IF c >= Len(norms) THEN [norms |-> norms, out |-> NoneT]
    ELSE IF \A j \in 1 .. Len(conditions) : conditions[j] # c
    THEN CondLoop(norms, train, x, seq_len, conditions, c + 1)
    ELSE CondNext(norms, train, x, seq_len, conditions, c,
                  GroupForward(norms[c + 1], train, x, seq_len,
                               ArgWhere(conditions, c)))
CondNext(norms, train, x, seq_len, conditions, c, r) ==
    CondJoin(r.out, CondLoop([norms EXCEPT ![c + 1] = r.self], train, x,
                             seq_len, conditions, c + 1))

\* the permutation applied a second time instead of its inverse
ReverseIdxAgain(sort_idx) == sort_idx
\* reverse_idx[sort_idx] = idx
ReverseIdx(sort_idx) ==
    [i \in 1 .. Len(sort_idx) |->
        (CHOOSE j \in 1 .. Len(sort_idx) : sort_idx[j] = i - 1) - 1]

\* ConditionedNorm.forward, lines 357-363: shared scale and shift, and the mask
\* of norms[0] for the lengths seq_len as they are at that point
SharedAffine(self, y, seq_len) ==
    LET s1 == IF self.learnable_scale # NoneT
              THEN MulV(y, self.learnable_scale) ELSE y
        s2 == SubV(s1, self.learnable_shift)
    IN  IF self.learnable_shift # NoneT
        THEN MulV(s2, ComputeMask(self.norms[1], s2, seq_len))
        ELSE s1

\* ConditionedNorm.forward, lines 355-363, with g the result of the loop and
\* seq_len the lengths in sorted order
CondRestore(self, sort_idx, seq_len, g) ==
    [self |-> [self EXCEPT !.norms = g.norms],
     normed |-> Rows(g.out, ReverseIdx(sort_idx)),
     out |-> SharedAffine(self, Rows(g.out, ReverseIdx(sort_idx)), seq_len)]

\* ConditionedNorm.forward, lines 341-363, on the sorted arguments
CondSorted(self, train, x, conditions, seq_len, sort_idx) ==
    CondRestore(self, sort_idx, seq_len,
                CondLoop(self.norms, train, x, seq_len, conditions, 0))

\* the lengths left in the caller's order while the rows are sorted
CondForwardCallerLengths(self, train, x, conditions, seq_len, sort_idx) ==
    CondSorted(self, train, Rows(x, sort_idx), Take(conditions, sort_idx),
               seq_len, sort_idx)
\* ConditionedNorm.forward with sort_idx the result of np.argsort:
\* [self |-> the module afterwards, out |-> the returned tensor,
\*  normed |-> x after line 355]
CondForward(self, train, x, conditions, seq_len, sort_idx) ==
    CondSorted(self, train, Rows(x, sort_idx), Take(conditions, sort_idx),
               IF seq_len = None THEN None ELSE Take(seq_len, sort_idx),
               sort_idx)

\* -------------------------------------------------------- the program ----
VARIABLES
    norm,       \* the Norm object: configuration, buffers and parameters
    training,   \* Module.training
    op,         \* the operation that just ended, "idle" once its result is taken
    x_in,       \* the arguments of the last operation, if it was a forward call
    len_in,
    out,        \* what the last operation returned (NoneT: nothing)
    raised,     \* whether the last operation ended in an exception
    calls,      \* forward calls so far
    hist,       \* history: the per-call statistics [n, mean, power] of the
                \* accumulating forward calls since construction or the last reset
    mask_in,    \* the mask argument of the last operation (compute_stats)
    cnorm,      \* the ConditionedNorm object (None where only a Norm is built)
    cond_in,    \* the conditions argument of the last operation
    ctor,       \* the arguments of the last operation, if it was Norm(...)
    normed,     \* ConditionedNorm.forward: x after line 355, before the shared affine
    frag_in     \* the arguments of the last operation, if it was fragment_parallel_signals

vars == <<norm, training, op, x_in, len_in, out, raised, calls, hist,
          mask_in, cnorm, cond_in, ctor, normed, frag_in>>

\* ---- reference statistics, from the definitions and not from the code ----
\* the positions of x that the length vector leaves valid
ValidAt(self, seq_len, i) ==
    seq_len = None \/ i[self.sequence_axis + 1] < seq_len[i[self.batch_axis + 1] + 1]
\* the reduction window of the retained index r
Window(self, shape, r) ==
    {i \in Idx(shape) :
        \A j \in 1 .. Len(shape) : (j - 1) \in self.statistics_axis \/ i[j] = r[j]}
RefN(self, x, seq_len, r) ==
    Cardinality({i \in Window(self, x.shape, r) : ValidAt(self, seq_len, i)})
RefMean(self, x, seq_len, r) ==
    LET V == {i \in Window(self, x.shape, r) : ValidAt(self, seq_len, i)}
    IN  RDiv(SumSet(x.val, V), Num(IF V = {} THEN 1 ELSE Cardinality(V)))
RefPower(self, x, seq_len, r) ==
    LET V == {i \in Window(self, x.shape, r) : ValidAt(self, seq_len, i)}
        sq == [i \in V |-> RMul(x.val[i], x.val[i])]
    IN  RDiv(SumSet(sq, V), Num(IF V = {} THEN 1 ELSE Cardinality(V)))
RefStats(self, x, seq_len) ==
    LET rs == ReducedShape(x.shape, self.statistics_axis)
    IN  [n |-> Tensor(rs, [r \in Idx(rs) |-> Num(RefN(self, x, seq_len, r))]),
         mean |-> Tensor(rs, [r \in Idx(rs) |-> RefMean(self, x, seq_len, r)]),
         power |-> Tensor(rs, [r \in Idx(rs) |-> RefPower(self, x, seq_len, r)])]
\* a forward call in this state adds to the accumulators (spec 4.1, step 2)
Accumulating(self, train) ==
    /\ self.track_running_stats
    /\ train
    /\ ~(self.n_freeze # None
         /\ \E i \in DOMAIN self.num_tracked_values.val :
                RGeq(self.num_tracked_values.val[i], Num(self.n_freeze[1])))

DataFormat == <<"b", "c", "t">>
\* the shape descriptor (0: None) and the shape of an input
ShapeDesc == <<0, 2, 0>>
InShape == <<2, 2, 2>>

\* the inputs explored: input 1 is the constant 2.0 of the doctest
InVal(k, i) == 2 + (k - 1) * (i[1] - 2 * i[3] + i[2])
Input(k) == Tensor(InShape, [i \in Idx(InShape) |-> Num(InVal(k, i))])
\* the batches explored: an input with its length vector (or None)
Batches ==
    << [x |-> Input(1), seq_len |-> <<1, 2>>],
       [x |-> Input(2), seq_len |-> None],
       [x |-> Input(2), seq_len |-> <<0, 0>>],
       [x |-> Input(3), seq_len |-> <<2, 1>>],
       [x |-> Input(1), seq_len |-> <<0, 2>>],
       [x |-> Input(2), seq_len |-> <<1, 0>>],
       [x |-> Input(3), seq_len |-> <<2, 2>>],
       [x |-> Input(3), seq_len |-> <<0, 1>>] >>
BatchSet == {Batches[k] : k \in 1 .. (IF NumBatches < Len(Batches)
                                      THEN NumBatches ELSE Len(Batches))}

\* values a gradient step may leave in the learnable scale and shift
TrainedScale(shape) == Tensor(shape, [i \in Idx(shape) |-> Num(2 + i[2])])
TrainedShift(shape) == Tensor(shape, [i \in Idx(shape) |-> Num(1 - 2 * i[2])])

\* the Norm objects explored: tracking ('bt') with every combination of scale,
\* momentum and freeze threshold listed, and per-call normalization ('t')
Configs ==
    {NewNorm(DataFormat, ShapeDesc, <<"b", "t">>, <<"c">>, "b", "t", sc, c[1], c[2]) :
        sc \in BOOLEAN,
        c \in {<<None, None>>, <<None, <<NFreeze>>>>, <<Rat(1, 2), None>>,
               <<Rat(1, 2), <<NFreeze>>>>, <<Rat(3, 4), None>>}}
    \cup
    {NewNorm(DataFormat, ShapeDesc, <<"t">>, <<"c">>, "b", "t", sc, Rat(1, 2), nf) :
        sc \in BOOLEAN, nf \in {None, <<NFreeze>>}}

Init ==
    /\ norm \in Configs
    /\ training = TRUE
    /\ op = "idle"
    /\ x_in = NoneT
    /\ len_in = None
    /\ out = NoneT
    /\ raised = FALSE
    /\ calls = 0
    /\ hist = <<>>
    /\ mask_in = NoneT
    /\ cnorm = None
    /\ cond_in = None
    /\ ctor = None
    /\ normed = NoneT
    /\ frag_in = None

\* norm(x, seq_len)
DoForward ==
    /\ op = "idle"
    /\ calls < MaxCalls
    /\ \E batch \in BatchSet :
         \E r \in {Forward(norm, training, batch.x, batch.seq_len)} :
             /\ norm' = r.self
             /\ out' = r.out
             /\ x_in' = batch.x
             /\ len_in' = batch.seq_len
             /\ hist' = IF Accumulating(norm, training)
                        THEN Append(hist, RefStats(norm, batch.x, batch.seq_len))
                        ELSE hist
    /\ op' = "forward"
    /\ raised' = FALSE
    /\ calls' = calls + 1
    /\ UNCHANGED <<training, mask_in, cnorm, cond_in, ctor, normed,
                 frag_in>>

\* norm.train() / norm.eval()
SetTraining ==
    /\ op = "idle"
    /\ training' = ~training
    /\ op' = "train"
    /\ x_in' = NoneT /\ len_in' = None /\ out' = NoneT
    /\ raised' = FALSE
    /\ UNCHANGED <<norm, calls, hist, mask_in, cnorm, cond_in, ctor, normed,
                 frag_in>>

\* a gradient step of the external optimizer on the learnable parameters
OptimizerStep ==
    /\ op = "idle"
    /\ norm.learnable_scale # NoneT
    /\ norm' = [norm EXCEPT
                   !.learnable_scale = TrainedScale(norm.learnable_scale.shape),
                   !.learnable_shift = TrainedShift(norm.learnable_shift.shape)]
    /\ op' = "step"
    /\ x_in' = NoneT /\ len_in' = None /\ out' = NoneT
    /\ raised' = FALSE
    /\ UNCHANGED <<training, calls, hist, mask_in, cnorm, cond_in, ctor, normed,
                 frag_in>>

\* norm.reset_running_stats()
DoResetRunningStats ==
    /\ op = "idle"
    /\ LET r == ResetRunningStats(norm)
       IN  norm' = r.self /\ raised' = r.raised
    /\ op' = "reset_running_stats"
    /\ x_in' = NoneT /\ len_in' = None /\ out' = NoneT
    /\ hist' = <<>>
    /\ UNCHANGED <<training, calls, mask_in, cnorm, cond_in, ctor, normed,
                 frag_in>>

\* norm.reset_parameters()
DoResetParameters ==
    /\ op = "idle"
    /\ LET r == ResetParameters(norm)
       IN  norm' = r.self /\ raised' = r.raised
    /\ op' = "reset_parameters"
    /\ x_in' = NoneT /\ len_in' = None /\ out' = NoneT
    /\ hist' = <<>>
    /\ UNCHANGED <<training, calls, mask_in, cnorm, cond_in, ctor, normed,
                 frag_in>>

\* the caller takes the result of the operation: the call has returned
Return ==
    /\ op # "idle"
    /\ op' = "idle"
    /\ x_in' = NoneT /\ len_in' = None /\ out' = NoneT
    /\ mask_in' = NoneT /\ cond_in' = None /\ ctor' = None
    /\ normed' = NoneT
    /\ frag_in' = None
    /\ raised' = FALSE
    /\ UNCHANGED <<norm, training, calls, hist, cnorm>>

Next ==
    \/ Return
    \/ DoForward
    \/ SetTraining
    \/ OptimizerStep
    \/ DoResetRunningStats
    \/ DoResetParameters

Spec == Init /\ [][Next]_vars

\* ------------------------------------- compute_mask, forward: layouts ----
Layouts ==
    {<<"b", "c", "t">>, <<"b", "t", "c">>, <<"c", "b", "t">>, <<"c", "t", "b">>,
     <<"t", "b", "c">>, <<"t", "c", "b">>, <<"b", "t">>, <<"t", "b">>}
\* the shape descriptor of a layout: two channels, batch and time left open
ShapeOf(data_format) ==
    [j \in 1 .. Len(data_format) |-> IF data_format[j] = "c" THEN 2 ELSE 0]
LayoutNorm(data_format, statistics_axis, scale) ==
    NewNorm(data_format, ShapeOf(data_format), statistics_axis,
            IF Occurs(data_format, "c") THEN <<"c">> ELSE None,
            "b", "t", scale, Rat(1, 2), None)
\* an input of batch size nb in the layout of self
RECURSIVE Code(_)
Code(i) == IF i = <<>> THEN 0 ELSE Head(i) + 3 * Code(Tail(i))
LayoutShape(self, nb) ==
    [j \in 1 .. Len(self.data_format) |->
        IF self.data_format[j] = "b" THEN nb
        ELSE IF self.data_format[j] = "t" THEN MaxTime ELSE 2]
LayoutInput(self, nb, k) ==
    Tensor(LayoutShape(self, nb),
           [i \in Idx(LayoutShape(self, nb)) |-> Num(k * Code(i) - 4)])
Lengths(nb) == [1 .. nb -> 0 .. MaxTime] \cup {None}
BatchSizes == {1, 2}

InitMask ==
    /\ norm \in {LayoutNorm(df, <<"b", "t">>, TRUE) : df \in Layouts}
    /\ training \in BOOLEAN
    /\ op = "idle"
    /\ x_in = NoneT
    /\ len_in = None
    /\ out = NoneT
    /\ raised = FALSE
    /\ calls = 0
    /\ hist = <<>>
    /\ mask_in = NoneT
    /\ cnorm = None
    /\ cond_in = None
    /\ ctor = None
    /\ normed = NoneT
    /\ frag_in = None

\* norm.compute_mask(x, seq_len)
DoComputeMask ==
    /\ op = "idle"
    /\ \E nb \in BatchSizes :
         \E seq_len \in Lengths(nb) :
           LET x == LayoutInput(norm, nb, 1)
           IN  /\ out' = ComputeMask(norm, x, seq_len)
               /\ x_in' = x
               /\ len_in' = seq_len
    /\ op' = "compute_mask"
    /\ raised' = FALSE
    /\ UNCHANGED <<norm, training, calls, hist, mask_in, cnorm, cond_in, ctor, normed,
                 frag_in>>

\* norm(x, seq_len) on an input in the layout of the Norm
DoLayoutForward ==
    /\ op = "idle"
    /\ calls < MaxCalls
    /\ \E seq_len \in {None, <<1, MaxTime>>, <<0, 2>>} :
         \E r \in {Forward(norm, training, LayoutInput(norm, 2, 1), seq_len)} :
             /\ norm' = r.self
             /\ out' = r.out
             /\ x_in' = LayoutInput(norm, 2, 1)
             /\ len_in' = seq_len
    /\ op' = "forward"
    /\ raised' = FALSE
    /\ calls' = calls + 1
    /\ UNCHANGED <<training, hist, mask_in, cnorm, cond_in, ctor, normed,
                 frag_in>>

NextMask ==
    \/ Return
    \/ DoComputeMask
    \/ DoLayoutForward

SpecMask == InitMask /\ [][NextMask]_vars

\* ------------------------------------------------------ compute_stats ----
\* a 0/1 mask that no length vector produces
Checker(shape, p) ==
    Tensor(shape, [i \in Idx(shape) |-> IF Code(i) % 2 = p THEN One ELSE Zero])
Masks(self, x, nb) ==
    {ComputeMask(self, x, seq_len) : seq_len \in Lengths(nb)}
    \cup {Checker(x.shape, p) : p \in {0, 1}}

InitStats ==
    /\ norm \in {LayoutNorm(df, c[1], c[2]) :
                    df \in Layouts,
                    c \in {<<(<<"b", "t">>), TRUE>>, <<(<<"b", "t">>), FALSE>>,
                           <<(<<"t">>), TRUE>>}}
    /\ training = TRUE
    /\ op = "idle"
    /\ x_in = NoneT
    /\ len_in = None
    /\ out = NoneT
    /\ raised = FALSE
    /\ calls = 0
    /\ hist = <<>>
    /\ mask_in = NoneT
    /\ cnorm = None
    /\ cond_in = None
    /\ ctor = None
    /\ normed = NoneT
    /\ frag_in = None

\* norm.compute_stats(x, mask)
DoComputeStats ==
    /\ op = "idle"
    /\ \E nb \in BatchSizes, k \in {1, 2} :
         LET x == LayoutInput(norm, nb, k)
         IN  \E mask \in Masks(norm, x, nb) :
               /\ out' = ComputeStats(norm, x, mask)
               /\ x_in' = x
               /\ mask_in' = mask
    /\ op' = "compute_stats"
    /\ len_in' = None
    /\ raised' = FALSE
    /\ UNCHANGED <<norm, training, calls, hist, cnorm, cond_in, ctor, normed,
                 frag_in>>

NextStats ==
    \/ Return
    \/ DoComputeStats

SpecStats == InitStats /\ [][NextStats]_vars

\* ------------------------------------------ ConditionedNorm: the program ----
CondShapeDesc == <<0, 2, 0>>
CondInShape == <<3, 2, 2>>
CondInput ==
    Tensor(CondInShape,
           [i \in Idx(CondInShape) |-> Num(1 + i[1] - 2 * i[3] + 3 * i[2])])
CondLengths == {None, <<1, 2, 0>>, <<2, 1, 2>>}
CondConfigs ==
    {NewConditionedNorm(2, DataFormat, CondShapeDesc, st, <<"c">>,
                        sc, Rat(1, 2)) : sc \in BOOLEAN,
                                         st \in {<<"b", "t">>, <<"t">>}}

InitCond ==
    /\ cnorm \in CondConfigs
    /\ norm = None
    /\ training = TRUE
    /\ op = "idle"
    /\ x_in = NoneT
    /\ len_in = None
    /\ out = NoneT
    /\ raised = FALSE
    /\ calls = 0
    /\ hist = <<>>
    /\ mask_in = NoneT
    /\ cond_in = None
    /\ ctor = None
    /\ normed = NoneT
    /\ frag_in = None

\* cnorm(x, conditions, seq_len)
DoCondForward ==
    /\ op = "idle"
    /\ calls < MaxCondCalls
    /\ \E conditions \in [1 .. CondInShape[1] -> 0 .. (cnorm.n_conditions - 1)],
          seq_len \in CondLengths :
         \E sort_idx \in ArgSort(conditions) :
           \E r \in {CondForward(cnorm, training, CondInput, conditions,
                                  seq_len, sort_idx)} :
               /\ cnorm' = r.self
               /\ out' = r.out
               /\ normed' = r.normed
               /\ x_in' = CondInput
               /\ len_in' = seq_len
               /\ cond_in' = conditions
    /\ op' = "cond_forward"
    /\ raised' = FALSE
    /\ calls' = calls + 1
    /\ UNCHANGED <<norm, training, hist, mask_in, ctor,
                 frag_in>>

\* a gradient step of the external optimizer on the shared parameters
CondOptimizerStep ==
    /\ op = "idle"
    /\ cnorm.learnable_scale # NoneT
    /\ cnorm' = [cnorm EXCEPT
                    !.learnable_scale = TrainedScale(cnorm.learnable_scale.shape),
                    !.learnable_shift = TrainedShift(cnorm.learnable_shift.shape)]
    /\ op' = "step"
    /\ x_in' = NoneT /\ len_in' = None /\ out' = NoneT
    /\ raised' = FALSE
    /\ UNCHANGED <<norm, training, calls, hist, mask_in, cond_in, ctor, normed,
                 frag_in>>

NextCond ==
    \/ Return
    \/ DoCondForward
    \/ SetTraining
    \/ CondOptimizerStep

SpecCond == InitCond /\ [][NextCond]_vars

\* ----------------------------------------------------- Norm(...): errors ----
\* the shape descriptors of a layout: one entry less to one entry more than
\* the layout has axes, each entry 2 or None (0)
RECURSIVE Shapes(_)
Shapes(n) ==
    IF n = 0 THEN {<<>>}
    ELSE {<<d>> \o r : d \in {0, 2}, r \in Shapes(n - 1)}
ShapesFor(data_format) ==
    UNION {Shapes(n) : n \in (Len(data_format) - 1) .. (Len(data_format) + 1)}
\* the constructor calls explored, for one layout and for all
CtorArgsFor(df) ==
    {[data_format |-> df, shape |-> sh, statistics_axis |-> st,
      independent_axis |-> ind, batch_axis |-> b, sequence_axis |-> t] :
        sh \in ShapesFor(df),
        st \in {<<"b", "t">>, <<"t">>, <<"f", "t">>},
        ind \in {None, <<"c">>, <<"f">>},
        b \in {<<"b">>, <<"n">>},
        t \in {<<"t">>, <<"s">>, None}}
CtorArgs == UNION {CtorArgsFor(df) : df \in {<<"b", "c", "t">>, <<"b", "t">>}}

InitCtor ==
    /\ norm = None
    /\ training = TRUE
    /\ op = "idle"
    /\ x_in = NoneT
    /\ len_in = None
    /\ out = NoneT
    /\ raised = FALSE
    /\ calls = 0
    /\ hist = <<>>
    /\ mask_in = NoneT
    /\ cnorm = None
    /\ cond_in = None
    /\ ctor = None
    /\ normed = NoneT
    /\ frag_in = None

\* norm = Norm(data_format, shape, statistics_axis=..., ...)
DoConstruct ==
    /\ op = "idle"
    /\ DOMAIN norm = {}
    /\ \E a \in CtorArgs :
         /\ ctor' = a
         /\ \E e \in {InitError(a.data_format, a.shape, a.statistics_axis,
                                a.independent_axis, a.batch_axis, a.sequence_axis)} :
              /\ raised' = (e # "none")
              /\ norm' = IF e = "none"
                         THEN NewNorm(a.data_format, a.shape, a.statistics_axis,
                                      a.independent_axis, a.batch_axis[1],
                                      a.sequence_axis[1], TRUE, Rat(1, 2), None)
                         ELSE None
    /\ op' = "init"
    /\ x_in' = NoneT /\ len_in' = None /\ out' = NoneT
    /\ UNCHANGED <<training, calls, hist, mask_in, cnorm, cond_in, normed,
                 frag_in>>

NextCtor ==
    \/ Return
    \/ DoConstruct

SpecCtor == InitCtor /\ [][NextCtor]_vars

\* ------------------------------------------------------------- claims ----
\* the index i of a tensor in the layout of self lies at or past the length
\* of its example
Padded(self, seq_len, i) ==
    i[self.sequence_axis + 1] >= seq_len[i[self.batch_axis + 1] + 1]

\* C1: after every forward call with a length vector, in either phase and from
\* every accumulator state, the output is exactly zero at every position whose
\* sequence index t satisfies t >= length[b].
C1_PaddedOutputIsZero ==
    (op = "forward" /\ len_in # None) =>
        \A i \in DOMAIN out.val : Padded(norm, len_in, i) => out.val[i] = ZeroV

\* C1, where it fails: the output of a replay call is nan at a padded position
C1_NanAtPadded ==
    /\ op = "forward" /\ len_in # None
    /\ \E i \in DOMAIN out.val : Padded(norm, len_in, i) /\ IsNaNV(out.val[i])

\* C2: after every forward call of a ConditionedNorm with a length vector,
\* whatever the conditions and the shared shift, row i of the output is exactly
\* zero at every sequence index t >= length[i], the lengths being those the
\* caller gave, in the caller's order.
C2_PaddedOutputIsZero ==
    (op = "cond_forward" /\ len_in # None) =>
        \A i \in DOMAIN out.val : i[3] >= len_in[i[1] + 1] => out.val[i] = ZeroV

\* C2, where it fails: whatever order argsort gives the two examples of
\* condition 1, the example of condition 0 and length 0 is masked with the
\* length of another example, and its row holds the negated shift
C2_ShiftAtPadded ==
    /\ op = "cond_forward" /\ cond_in = <<1, 1, 0>> /\ len_in = <<1, 2, 0>>
    /\ \E i \in DOMAIN out.val :
          /\ i[1] = 2 /\ i[3] = 0
          /\ out.val[i] = LiftV(RSub(Zero, At(cnorm.learnable_shift, i)))
          /\ out.val[i] # ZeroV

\* C3: compute_mask returns, for every layout and input shape, a mask of the
\* input's shape that is 1 at a position iff its sequence index is below the
\* length of its batch index (all ones without a length vector), and forward
\* returns a tensor of the shape of its input.
C3_MaskOfOwnLength ==
    /\ op = "compute_mask" =>
         /\ out.shape = x_in.shape
         /\ DOMAIN out.val = Idx(x_in.shape)
         /\ \A i \in Idx(x_in.shape) :
              out.val[i] =
                  IF len_in = None
                       \/ i[norm.sequence_axis + 1] < len_in[i[norm.batch_axis + 1] + 1]
                  THEN One ELSE Zero
    /\ op = "forward" =>
         /\ out.shape = x_in.shape
         /\ DOMAIN out.val = Idx(x_in.shape)

\* C3's case: a mask for a layout with the sequence axis before the batch axis
\* and a channel axis, with two different lengths, one of them the full extent
C3_SequenceBeforeBatch ==
    /\ op = "compute_mask" /\ len_in # None /\ Dim(x_in) = 3
    /\ norm.sequence_axis < norm.batch_axis
    /\ Len(len_in) = 2 /\ len_in[1] = MaxTime /\ len_in[2] = 1
    /\ \E i \in DOMAIN out.val : out.val[i] = Zero

\* C4: compute_stats returns n = number of unmasked positions per reduction
\* window (reduced axes of size 1), mean = sum of unmasked values / max(n, 1),
\* power = sum of squared unmasked values / max(n, 1) if scale and None
\* otherwise; a window with n = 0 has mean 0 and power 0.
C4_MaskedStatistics ==
    op = "compute_stats" =>
        LET rs == ReducedShape(x_in.shape, norm.statistics_axis)
        IN  /\ out.n_values.shape = rs
            /\ out.mean.shape = rs
            /\ norm.scale => out.power.shape = rs
            /\ ~norm.scale => out.power = NoneT
            /\ \A r \in Idx(rs) :
                 LET V == {i \in Window(norm, x_in.shape, r) : mask_in.val[i] = One}
                     n == Cardinality(V)
                     d == IF n >= 1 THEN n ELSE 1
                     sq == [i \in V |-> RMul(x_in.val[i], x_in.val[i])]
                 IN  /\ out.n_values.val[r] = Num(n)
                     /\ out.mean.val[r] = Rat(SumSet(x_in.val, V)[1], d)
                     /\ norm.scale => out.power.val[r] = Rat(SumSet(sq, V)[1], d)
                     /\ n = 0 =>
                          /\ out.mean.val[r] = Zero
                          /\ norm.scale => out.power.val[r] = Zero

\* C4's case: statistics with scale, one window entirely masked out and
\* another one partly
C4_EmptyWindow ==
    /\ op = "compute_stats" /\ norm.scale
    /\ \E r \in DOMAIN out.n_values.val : out.n_values.val[r] = Zero
    /\ \E r \in DOMAIN out.n_values.val :
          /\ RGeq(out.n_values.val[r], Num(2))
          /\ out.mean.val[r] # Zero
          /\ \E i \in Window(norm, x_in.shape, r) : mask_in.val[i] = Zero

\* the constructor arguments a name an axis character missing from the layout
AbsentAxis(a) ==
    \/ ~Occurs(a.data_format, a.batch_axis[1])
    \/ a.sequence_axis # None /\ ~Occurs(a.data_format, a.sequence_axis[1])
    \/ \E k \in 1 .. Len(a.statistics_axis) :
          ~Occurs(a.data_format, a.statistics_axis[k])
    \/ \E k \in 1 .. Len(a.independent_axis) :
          ~Occurs(a.data_format, a.independent_axis[k])
\* an independent axis of a has the size None in the shape descriptor
UndeterminedIndependent(a) ==
    \E k \in 1 .. Len(a.independent_axis) :
       \E j \in 1 .. Len(a.shape) :
          /\ j <= Len(a.data_format)
          /\ a.data_format[j] = a.independent_axis[k]
          /\ a.shape[j] = 0
\* a names only axes of the layout, and gives one size per axis: a number for
\* every independent axis and, with the batch axis among the statistics axes,
\* for every axis that is not a statistics axis
WellFormed(a) ==
    /\ ~AbsentAxis(a)
    /\ Len(a.shape) = Len(a.data_format)
    /\ ~UndeterminedIndependent(a)
    /\ (\E k \in 1 .. Len(a.statistics_axis) : a.statistics_axis[k] = a.batch_axis[1])
         => \A j \in 1 .. Len(a.shape) :
               \/ a.shape[j] # 0
               \/ \E k \in 1 .. Len(a.statistics_axis) :
                     a.statistics_axis[k] = a.data_format[j]

\* C11: construction fails, and leaves no Norm, whenever an independent axis
\* has the size None in the shape descriptor or a named axis character
\* (batch, sequence, statistics, independent) does not occur in the layout.
C11_ConstructionFails ==
    (op = "init" /\ (UndeterminedIndependent(ctor) \/ AbsentAxis(ctor))) =>
        (raised /\ DOMAIN norm = {})

\* C11's case: a call that fails for the undetermined size of its independent
\* axis alone
C11_UndeterminedOnly ==
    /\ op = "init" /\ raised
    /\ UndeterminedIndependent(ctor) /\ ~AbsentAxis(ctor)
    /\ ctor.sequence_axis # None
    /\ Len(ctor.shape) = Len(ctor.data_format)
    /\ ctor.statistics_axis = <<"t">>

\* C12: construction fails whenever the shape descriptor is longer or shorter
\* than the layout, for every choice of statistics and independent axes.
C12_LengthMismatchFails ==
    (op = "init" /\ Len(ctor.shape) # Len(ctor.data_format)) => raised

\* C12, where it fails: a Norm built from a shape descriptor with one entry
\* more than the layout has axes
C12_LongerShapeAccepted ==
    /\ op = "init" /\ ~raised /\ DOMAIN norm # {}
    /\ Len(ctor.shape) = Len(ctor.data_format) + 1
    /\ ctor.independent_axis # None
    /\ norm.track_running_stats

\* C13: construction with the sequence axis given as None succeeds (a forward
\* call without lengths then uses the all-ones mask, and only a call with
\* lengths is rejected).
C13_SequenceAxisNone ==
    (op = "init" /\ ctor.sequence_axis = None
       /\ WellFormed([ctor EXCEPT !.sequence_axis = <<"t">>])) =>
        (~raised /\ DOMAIN norm # {})

\* the freeze threshold is configured and the largest count has reached it
ThresholdReached(self) ==
    /\ self.track_running_stats
    /\ self.n_freeze # None
    /\ \E i \in DOMAIN self.num_tracked_values.val :
           RGeq(self.num_tracked_values.val[i], Num(self.n_freeze[1]))
SameAccumulators(a, b) ==
    /\ a.num_tracked_values = b.num_tracked_values
    /\ a.running_mean = b.running_mean
    /\ a.running_power = b.running_power
AllEqual(x, c) == \A i \in DOMAIN x.val : x.val[i] = c

\* m * (... m * (m * init + (1-m) * h[1]) ...) + (1-m) * h[k], at window r
RECURSIVE Blended(_, _, _, _, _)
Blended(h, field, init, m, r) ==
    IF h = <<>> THEN init
    ELSE RAdd(RMul(m, Blended(SubSeq(h, 1, Len(h) - 1), field, init, m, r)),
              RMul(RSub(One, m), h[Len(h)][field].val[r]))

\* C5: with a fixed momentum m every accumulating call sets running_mean to
\* m*running_mean + (1-m)*mean_k and running_power to m*running_power +
\* (1-m)*power_k: from (0, 1) one call gives (1-m)*mean_1 and m + (1-m)*power_1
\* (1.0 and 2.5 for m = 0.5 and the constant input 2.0), two calls give
\* m*(1-m)*mean_1 + (1-m)*mean_2, whatever the counts n1, n2.
C5_FixedMomentumLaw ==
    (norm.track_running_stats /\ norm.momentum # None) =>
        LET m == norm.momentum
        IN  \A r \in DOMAIN norm.running_mean.val :
              /\ norm.running_mean.val[r] = Blended(hist, "mean", Zero, m, r)
              /\ norm.scale =>
                   norm.running_power.val[r] = Blended(hist, "power", One, m, r)
              /\ Len(hist) = 1 =>
                   /\ norm.running_mean.val[r] = RMul(RSub(One, m), hist[1].mean.val[r])
                   /\ norm.scale =>
                        norm.running_power.val[r] =
                            RAdd(m, RMul(RSub(One, m), hist[1].power.val[r]))
              /\ (Len(hist) = 1 /\ m = Rat(1, 2)
                    /\ hist[1].mean.val[r] = Num(2) /\ hist[1].power.val[r] = Num(4)) =>
                   /\ norm.running_mean.val[r] = One
                   /\ norm.scale => norm.running_power.val[r] = Rat(5, 2)
              /\ Len(hist) = 2 =>
                   norm.running_mean.val[r] =
                       RAdd(RMul(RMul(m, RSub(One, m)), hist[1].mean.val[r]),
                            RMul(RSub(One, m), hist[2].mean.val[r]))

\* C5's case: two accumulating calls with different means and counts
C5_TwoCalls ==
    /\ norm.track_running_stats /\ norm.momentum # None /\ norm.scale
    /\ op = "forward" /\ Len(hist) = 2
    /\ \E r \in DOMAIN norm.running_mean.val :
          /\ hist[1].mean.val[r] # hist[2].mean.val[r]
          /\ hist[1].n.val[r] # hist[2].n.val[r]

\* C6: once the largest count has reached the configured threshold, no
\* operation but a reset changes count, running_mean or running_power, in
\* either phase, so the normalizer stays frozen.
C6_FrozenStaysFrozen ==
    [][(ThresholdReached(norm)
          /\ op' \notin {"reset_running_stats", "reset_parameters"})
       => (SameAccumulators(norm', norm) /\ ThresholdReached(norm'))]_vars

\* C6's case: a forward call in the training phase that found the normalizer
\* frozen (its statistics are not the ones accumulated)
C6_FrozenTrainingCall ==
    /\ op = "forward" /\ training /\ ThresholdReached(norm)
    /\ Len(hist) = 1 /\ hist[1] # RefStats(norm, x_in, len_in)

\* C7: reset_running_stats completes without error whether scale is enabled
\* or not, zeroes count and running mean, sets the running second moment to
\* one exactly when scale is enabled, and is a no-op without tracking.
C7_ResetRunningStats ==
    [][op' = "reset_running_stats" =>
         /\ ~raised'
         /\ norm.track_running_stats =>
              /\ AllEqual(norm'.num_tracked_values, Zero)
              /\ AllEqual(norm'.running_mean, Zero)
              /\ IF norm.scale THEN AllEqual(norm'.running_power, One)
                 ELSE norm'.running_power = norm.running_power
         /\ ~norm.track_running_stats => norm' = norm]_vars

\* C8: right after reset_parameters the learnable scale is all ones, the
\* learnable shift all zeros, running_mean zero, running_power one (if scale)
\* and the count zero; a second call changes nothing; the normalizer is not
\* frozen.
C8_ResetParameters ==
    [][op' = "reset_parameters" =>
         /\ ~raised'
         /\ AllEqual(norm'.learnable_scale, One)
         /\ AllEqual(norm'.learnable_shift, Zero)
         /\ norm.track_running_stats =>
              /\ AllEqual(norm'.num_tracked_values, Zero)
              /\ AllEqual(norm'.running_mean, Zero)
              /\ norm.scale => AllEqual(norm'.running_power, One)
         /\ ResetParameters(norm').self = norm'
         /\ ~Freezed(norm')]_vars

\* the retained (window) index of position i
Retained(self, i) ==
    [j \in 1 .. Len(i) |-> IF (j - 1) \in self.statistics_axis THEN 0 ELSE i[j]]
\* the replay output at one position, from its input value xv and the stored
\* buffers and parameters alone
ReplayPoint(self, xv, i) ==
    LET r == Retained(self, i)
        mean == self.running_mean.val[r]
        c == RSub(xv, mean)
        n == RMax(self.num_tracked_values.val[r], Num(2))
        var == RMul(RDiv(n, RSub(n, One)),
                    RSub(self.running_power.val[r], RMul(mean, mean)))
        y == IF self.scale THEN QuotV(c, var) ELSE LiftV(c)
    IN  VSubS(VMulS(y, At(self.learnable_scale, i)), At(self.learnable_shift, i))

\* C9: a forward call of a tracking Norm outside the training phase leaves
\* count, running_mean and running_power unchanged, and its output at a valid
\* position is a function of that position's input value and the stored state.
C9_ReplayOutsideTraining ==
    [][(op' = "forward" /\ norm.track_running_stats /\ ~training) =>
         /\ SameAccumulators(norm', norm)
         /\ \A i \in DOMAIN out'.val :
              ValidAt(norm, len_in', i) =>
                  out'.val[i] = ReplayPoint(norm, x_in'.val[i], i)]_vars

\* C9's case: an evaluation-phase call after statistics were accumulated, on a
\* batch whose statistics differ from the stored ones
C9_EvalCall ==
    /\ op = "forward" /\ ~training /\ norm.track_running_stats /\ norm.scale
    /\ Len(hist) = 1 /\ len_in # None
    /\ hist[1].mean # RefStats(norm, x_in, len_in).mean

\* C10: tracking is enabled iff the batch axis is a statistics axis; without
\* it there are no count/mean/power buffers, a configured threshold never
\* freezes the Norm, and forward returns the same output in both phases.
C10_TrackingIffBatchInStatistics ==
    /\ norm.track_running_stats = (norm.batch_axis \in norm.statistics_axis)
    /\ ~norm.track_running_stats =>
         /\ norm.num_tracked_values = NoneT
         /\ norm.running_mean = NoneT
         /\ norm.running_power = NoneT
         /\ ~Freezed(norm)
         /\ op = "forward" => out = Forward(norm, ~training, x_in, len_in).out

\* C10's case: an evaluation-phase call of a Norm without tracking that has a
\* freeze threshold configured
C10_UntrackedEvalCall ==
    /\ ~norm.track_running_stats /\ norm.n_freeze # None
    /\ op = "forward" /\ ~training /\ len_in # None

\* ------------------------------------------- ConditionedNorm: the rows ----
\* condition c occurs in the batch
Present(conditions, c) == \E j \in 1 .. Len(conditions) : conditions[j] = c
\* seq_len[idx] where lengths are given
LengthsOf(seq_len, idx) == IF seq_len = None THEN None ELSE Take(seq_len, idx)
\* what self.norms[c] returns for the single-row batch holding example i
Alone(self, train, x, seq_len, i) ==
    Forward(self, train, Rows(x, <<i>>), LengthsOf(seq_len, <<i>>)).out
\* self.norms[c] called on the batch holding exactly the examples idx, in
\* their original order and with their own lengths
OnGroup(self, train, x, seq_len, idx) ==
    Forward(self, train, Rows(x, idx), LengthsOf(seq_len, idx))
\* every example of idx has in y the row that the call result r holds for it
RowsPlaced(y, r, idx) ==
    \A j \in 1 .. Len(idx) : Rows(y, <<idx[j]>>) = Rows(r.out, <<j - 1>>)
\* the examples of a batch
Examples(x) == 0 .. (x.shape[1] - 1)
\* self.norms[conditions[i]]
NormOf(self, conditions, i) == self.norms[conditions[i + 1] + 1]
\* the statistics of self.norms[c] are reduced over the batch axis in this
\* call: more rows in the call change the statistics it normalizes with
BatchStatistics(self, train) ==
    Estimates(self, train) /\ self.batch_axis \in self.statistics_axis

\* C14 as stated: after ConditionedNorm.forward, row i of x before the shared
\* affine step is what the normalizer of conditions[i], in its state before
\* the call, returns for the single-row batch holding only example i
C14_RowAsAlone ==
    [][op' = "cond_forward" =>
         \A i \in Examples(x_in') :
            Rows(normed', <<i>>) =
                Alone(NormOf(cnorm, cond_in', i), training, x_in', len_in', i)]_vars
\* C14 amended: row i before the shared affine step is the row of example i
\* in what the normalizer of conditions[i] returns for the batch of exactly
\* the examples with that condition, and it is what the normalizer returns
\* for example i alone whenever the normalizer does not take its statistics
\* over the batch axis of the call
C14_RowAsInGroup ==
    [][op' = "cond_forward" =>
         /\ \A c \in 0 .. (cnorm.n_conditions - 1) :
               Present(cond_in', c) =>
                  \A r \in {OnGroup(cnorm.norms[c + 1], training, x_in', len_in',
                                    ArgWhere(cond_in', c))} :
                      RowsPlaced(normed', r, ArgWhere(cond_in', c))
         /\ \A i \in Examples(x_in') :
               ~BatchStatistics(NormOf(cnorm, cond_in', i), training) =>
                  Rows(normed', <<i>>) =
                    Alone(NormOf(cnorm, cond_in', i), training, x_in', len_in', i)]_vars
\* a training call with lengths in which both conditions occur, the two
\* examples of condition 1 are not adjacent and example 1 stands alone
C14_InterleavedGroups ==
    /\ op = "cond_forward"
    /\ training
    /\ cond_in = <<1, 0, 1>>
    /\ len_in = <<2, 1, 2>>
    /\ normed # NoneT


\* C15: ConditionedNorm.forward leaves the normalizer of every condition that
\* is absent from the batch as it was, leaves the normalizer of every present
\* condition as one call on exactly that condition's rows and lengths leaves
\* it, and puts that call's row for example i at row i, whichever sorting
\* permutation argsort returned
C15_Routing ==
    [][op' = "cond_forward" =>
         \A c \in 0 .. (cnorm.n_conditions - 1) :
            IF Present(cond_in', c)
            THEN \A r \in {OnGroup(cnorm.norms[c + 1], training, x_in', len_in',
                                   ArgWhere(cond_in', c))} :
                     /\ cnorm'.norms[c + 1] = r.self
                     /\ RowsPlaced(normed', r, ArgWhere(cond_in', c))
            ELSE cnorm'.norms[c + 1] = cnorm.norms[c + 1]]_vars
\* a training call with lengths in which condition 0 is absent: its tracked
\* accumulators are still the initial ones, those of condition 1 have counted
C15_AbsentCondition ==
    /\ op = "cond_forward"
    /\ training
    /\ cond_in = <<1, 1, 1>>
    /\ len_in = <<1, 2, 0>>
    /\ cnorm.norms[1].track_running_stats
    /\ cnorm.norms[1].num_tracked_values = Full(<<1, 2, 1>>, Zero)
    /\ cnorm.norms[2].num_tracked_values = Full(<<1, 2, 1>>, Num(3))

\* -------------------------------------------- fragment_parallel_signals ----
MaxSignalLen == 4
MaxFragLen == 2

\* x[slc] with slc[ax] = slice(start, stop) for non-negative start and stop:
\* both are clipped to the length of the axis
Slice(x, ax, start, stop) ==
    LET L == x.shape[ax + 1]
        a == IF start < L THEN start ELSE L
        b == IF stop < L THEN stop ELSE L
        shape == [x.shape EXCEPT ![ax + 1] = IF b > a THEN b - a ELSE 0]
    IN  Tensor(shape,
               [i \in Idx(shape) |-> x.val[[i EXCEPT ![ax + 1] = @ + a]]])

\* np.arange(start, stop, step) for integers and step > 0
ARange(start, stop, step) ==
    [k \in 1 .. (IF stop > start THEN (stop - start + step - 1) \div step ELSE 0) |->
        start + (k - 1) * step]

\* the stop of the index range without the + 1
FragmentStartsShort(length, min_len, start_idx, step) ==
    ARange(start_idx, length - min_len, step)
\* lines 360-362: np.arange(start_idx, x.shape[ax] - min_len + 1, step[i])
FragmentStarts(length, min_len, start_idx, step) ==
    ARange(start_idx, length - min_len + 1, step)

\* lines 356-363: the slices cut at the indices idxs, after the piece before
\* start_idx where that piece is at least min_len long
FragmentsAt(x, ax, max_len, min_len, start_idx, idxs) ==
    (IF start_idx >= min_len THEN <<Slice(x, ax, 0, start_idx)>> ELSE <<>>)
    \o [k \in 1 .. Len(idxs) |-> Slice(x, ax, idxs[k], idxs[k] + max_len)]
\* lines 342-363: the fragments of one signal
Fragments(x, ax, step, max_len, min_len, start_idx) ==
    FragmentsAt(x, ax, max_len, min_len, start_idx,
                FragmentStarts(x.shape[ax + 1], min_len, start_idx, step))

\* lines 354-355 with start = 0. (random_start disabled): round(start * step)
StartIdx(step) == 0

\* lines 344 and 347: an assertion of the loop fails for some signal
LoopAssertionFails(signals, axis, max_length, min_length) ==
    \E i \in 1 .. Len(signals) :
        \/ ~(axis[i] < Dim(signals[i]))
        \/ ~(max_length[i] >= min_length[i])
\* line 365: assert len(set([len(sig) for sig in fragmented_signals])) == 1
SameNumber(fragmented_signals) ==
    Cardinality({Len(fragmented_signals[i]) :
                    i \in 1 .. Len(fragmented_signals)}) = 1
\* lines 365-366, on the list the loop has built
FragmentReturn(fragmented_signals) ==
    IF SameNumber(fragmented_signals)
    THEN [raised |-> FALSE, out |-> fragmented_signals]
    ELSE [raised |-> TRUE, out |-> NoneT]
\* fragment_parallel_signals(signals, axis, step, max_length, min_length),
\* random_start disabled; the arguments are given per signal, as to_list
\* returns them: [raised |-> an assertion failed, out |-> the returned lists]
FragmentParallelSignals(signals, axis, step, max_length, min_length) ==
    IF LoopAssertionFails(signals, axis, max_length, min_length)
    THEN [raised |-> TRUE, out |-> NoneT]
    ELSE FragmentReturn([i \in 1 .. Len(signals) |->
                            Fragments(signals[i], axis[i], step[i], max_length[i],
                                      min_length[i], StartIdx(step[i]))])

\* the signals: two channels of l samples, as np.arange(2 * l).reshape((2, l)),
\* and l samples, as np.arange(l)
Signal2D(l) == Tensor(<<2, l>>, [i \in Idx(<<2, l>>) |-> i[1] * l + i[2]])
Signal1D(l) == Tensor(<<l>>, [i \in Idx(<<l>>) |-> i[1]])
\* step, max_length and min_length of one signal
FragmentSizes ==
    {[step |-> s, max_length |-> ma, min_length |-> mi] :
        s \in 1 .. MaxFragLen, ma \in 0 .. MaxFragLen, mi \in 0 .. MaxFragLen}
\* the calls with signals of l1 and l2 samples
FragmentArgs(l1, l2) ==
    {[signals |-> <<Signal2D(l1), Signal1D(l2)>>,
      axis |-> ax,
      step |-> <<p1.step, p2.step>>,
      max_length |-> <<p1.max_length, p2.max_length>>,
      min_length |-> <<p1.min_length, p2.min_length>>,
      random_start |-> FALSE] :
        ax \in {<<1, 0>>, <<0, 0>>, <<1, 1>>},
        p1 \in FragmentSizes, p2 \in FragmentSizes}

InitFragment ==
    /\ norm = None
    /\ cnorm = None
    /\ training = TRUE
    /\ op = "idle"
    /\ x_in = NoneT
    /\ len_in = None
    /\ out = NoneT
    /\ raised = FALSE
    /\ calls = 0
    /\ hist = <<>>
    /\ mask_in = NoneT
    /\ cond_in = None
    /\ ctor = None
    /\ normed = NoneT
    /\ frag_in = None

\* fragment_parallel_signals(signals, axis, step, max_length, min_length)
DoFragment ==
    /\ op = "idle"
    /\ \E l1 \in 0 .. MaxSignalLen, l2 \in 0 .. MaxSignalLen :
       \E a \in FragmentArgs(l1, l2) :
         /\ frag_in' = a
         /\ \E r \in {FragmentParallelSignals(a.signals, a.axis, a.step,
                                               a.max_length, a.min_length)} :
               /\ raised' = r.raised
               /\ out' = r.out
    /\ op' = "fragment"
    /\ x_in' = NoneT
    /\ len_in' = None
    /\ UNCHANGED <<norm, training, calls, hist, mask_in, cnorm, cond_in, ctor,
                   normed>>

NextFragment ==
    \/ Return
    \/ DoFragment

SpecFragment == InitFragment /\ [][NextFragment]_vars

\* -------------------------------------- fragment_parallel_signals: claims ----
\* the number of k = 0, 1, ... with k * step <= length - min_len
StatedCount(length, step, min_len) ==
    IF length - min_len < 0 THEN 0 ELSE (length - min_len) \div step + 1
\* the samples [lo, hi) of x along ax, for 0 <= lo and hi <= x.shape[ax]
Samples(x, ax, lo, hi) ==
    Tensor([x.shape EXCEPT ![ax + 1] = IF hi > lo THEN hi - lo ELSE 0],
           [i \in Idx([x.shape EXCEPT ![ax + 1] = IF hi > lo THEN hi - lo ELSE 0]) |->
               x.val[[i EXCEPT ![ax + 1] = @ + lo]]])
\* the slices [k * step, min(k * step + max_len, L)) for k = 0, 1, ... as long
\* as k * step <= L - min_len
StatedFragments(x, ax, step, max_len, min_len) ==
    [k \in 1 .. StatedCount(x.shape[ax + 1], step, min_len) |->
        Samples(x, ax, (k - 1) * step,
                IF (k - 1) * step + max_len < x.shape[ax + 1]
                THEN (k - 1) * step + max_len ELSE x.shape[ax + 1])]
\* the empty piece x[0:0] that leads the list when min_len is not positive
StatedHead(x, ax, min_len) ==
    IF min_len <= 0 THEN <<Samples(x, ax, 0, 0)>> ELSE <<>>
\* every fragment of the list is between min_len and max_len long
LengthsWithin(fragments, ax, max_len, min_len) ==
    \A k \in 1 .. Len(fragments) :
        /\ fragments[k].shape[ax + 1] >= min_len
        /\ fragments[k].shape[ax + 1] <= max_len
\* the signals of the call
Signals(a) == 1 .. Len(a.signals)

\* C16 as stated: when the call returns, the fragments of each signal are
\* exactly the stated slices, each between min_length and max_length long,
\* and all signals have the same stated number of fragments
C16_FragmentsAsStated ==
    (op = "fragment" /\ ~raised) =>
        /\ \A i \in Signals(frag_in) :
              /\ out[i] = StatedFragments(frag_in.signals[i], frag_in.axis[i],
                                          frag_in.step[i], frag_in.max_length[i],
                                          frag_in.min_length[i])
              /\ LengthsWithin(out[i], frag_in.axis[i], frag_in.max_length[i],
                               frag_in.min_length[i])
        /\ \A i, j \in Signals(frag_in) :
              StatedCount(frag_in.signals[i].shape[frag_in.axis[i] + 1],
                          frag_in.step[i], frag_in.min_length[i])
              = StatedCount(frag_in.signals[j].shape[frag_in.axis[j] + 1],
                            frag_in.step[j], frag_in.min_length[j])
\* C16 amended: when the call returns, the fragments of each signal are the
\* stated slices, led by the empty piece x[0:0] when min_length is not
\* positive; each is between min_length and max_length long; and all signals
\* have the same number of fragments, the leading piece counted
C16_FragmentsWithHead ==
    (op = "fragment" /\ ~raised) =>
        /\ \A i \in Signals(frag_in) :
              /\ out[i] = StatedHead(frag_in.signals[i], frag_in.axis[i],
                                     frag_in.min_length[i])
                          \o StatedFragments(frag_in.signals[i], frag_in.axis[i],
                                             frag_in.step[i], frag_in.max_length[i],
                                             frag_in.min_length[i])
              /\ LengthsWithin(out[i], frag_in.axis[i], frag_in.max_length[i],
                               frag_in.min_length[i])
        /\ \A i, j \in Signals(frag_in) :
              Len(StatedHead(frag_in.signals[i], frag_in.axis[i], frag_in.min_length[i]))
              + StatedCount(frag_in.signals[i].shape[frag_in.axis[i] + 1],
                            frag_in.step[i], frag_in.min_length[i])
              = Len(StatedHead(frag_in.signals[j], frag_in.axis[j], frag_in.min_length[j]))
                + StatedCount(frag_in.signals[j].shape[frag_in.axis[j] + 1],
                              frag_in.step[j], frag_in.min_length[j])
\* a returning call as in the doctest, scaled down: steps 2 and 1, two
\* fragments per signal, the last one of each cut short by the signal's end
C16_ShortLastFragment ==
    /\ op = "fragment"
    /\ ~raised
    /\ frag_in.axis = <<1, 0>>
    /\ frag_in.step = <<2, 1>>
    /\ frag_in.max_length = <<2, 2>>
    /\ frag_in.min_length = <<1, 1>>
    /\ Len(out[1]) = 2
    /\ out[1][2].shape = <<2, 1>>
    /\ out[2][2].shape = <<1>>

\* ------------------------------------------------------ Norm: variance ----
\* n - 1. for n = max(count, 2) is at least 1 at every retained position
DenominatorAtLeastOne(count) ==
    \A r \in Idx(count.shape) :
        RGeq(RSub(RMax(count.val[r], Num(2)), One), One)
\* the variance is a number, and not a negative one, at every retained position
NonNegative(var) ==
    \A r \in Idx(var.shape) : ~IsNaN(var.val[r]) /\ RGeq(var.val[r], Zero)
\* the variance of line 208 for the statistics st of the call
CallVariance(st) == Variance(st.n_values, st.power, st.mean)
\* the variance of lines 224-227, from the accumulators
RunningVariance(self) ==
    Variance(self.num_tracked_values, self.running_power, self.running_mean)
\* some accumulator of the Norm holds nan
NanAccumulated(self) ==
    /\ self.track_running_stats
    /\ \E r \in Idx(self.running_mean.shape) : IsNaN(self.running_mean.val[r])

\* C17: in every forward call of a scaling Norm the variance that divides x,
\* computed from the call's statistics in estimate mode and from the
\* accumulators in replay mode, has a denominator n' - 1 >= 1 and is
\* non-negative
C17_VarianceWellDefined ==
    [][(op' = "forward" /\ norm.scale) =>
          IF Estimates(norm, training)
          THEN /\ DenominatorAtLeastOne(
                      ComputeStats(norm, x_in', ComputeMask(norm, x_in', len_in')).n_values)
               /\ NonNegative(CallVariance(
                      ComputeStats(norm, x_in', ComputeMask(norm, x_in', len_in'))))
          ELSE /\ DenominatorAtLeastOne(norm.num_tracked_values)
               /\ NonNegative(RunningVariance(norm))]_vars
\* a replay call of a scaling Norm whose accumulators hold nan
C17_ReplayFromNan ==
    /\ op = "forward"
    /\ norm.scale
    /\ ~training
    /\ NanAccumulated(norm)
    /\ norm.momentum = None

\* ------------------------------------------- Norm: adaptive momentum ----
\* sum of n_k * h[k][field] over the calls of h, at window r
RECURSIVE WeightedSum(_, _, _)
WeightedSum(h, field, r) ==
    IF h = <<>> THEN Zero
    ELSE RAdd(WeightedSum(SubSeq(h, 1, Len(h) - 1), field, r),
              RMul(h[Len(h)].n.val[r], h[Len(h)][field].val[r]))
\* sum of n_k over the calls of h, at window r
RECURSIVE CountSum(_, _)
CountSum(h, r) ==
    IF h = <<>> THEN Zero
    ELSE RAdd(CountSum(SubSeq(h, 1, Len(h) - 1), r), h[Len(h)].n.val[r])
\* every call of h had at least one valid value in window r
EveryCallCounts(h, r) == \A k \in 1 .. Len(h) : RGeq(h[k].n.val[r], One)

\* C18: with momentum unset, after accumulating calls with n_k >= 1 valid
\* values in a window, running_mean there is sum(n_k * mean_k) / sum(n_k) and
\* running_power is sum(n_k * power_k) / sum(n_k); after the first call they
\* are mean_1 and power_1, nothing of the initial 0 and 1 is left
C18_CountWeightedAverage ==
    (norm.track_running_stats /\ norm.momentum = None) =>
        \A r \in DOMAIN norm.running_mean.val :
            (hist # <<>> /\ EveryCallCounts(hist, r)) =>
                /\ norm.running_mean.val[r] =
                     RDiv(WeightedSum(hist, "mean", r), CountSum(hist, r))
                /\ norm.scale =>
                     norm.running_power.val[r] =
                        RDiv(WeightedSum(hist, "power", r), CountSum(hist, r))
                /\ Len(hist) = 1 =>
                     /\ norm.running_mean.val[r] = hist[1].mean.val[r]
                     /\ norm.scale =>
                          norm.running_power.val[r] = hist[1].power.val[r]
\* two accumulating calls with momentum unset whose counts and means differ
C18_TwoWeightedCalls ==
    /\ norm.track_running_stats /\ norm.momentum = None /\ norm.scale
    /\ op = "forward" /\ Len(hist) = 2
    /\ \E r \in DOMAIN norm.running_mean.val :
          /\ EveryCallCounts(hist, r)
          /\ hist[1].mean.val[r] # hist[2].mean.val[r]
          /\ hist[1].n.val[r] # hist[2].n.val[r]
          /\ hist[1].power.val[r] # One

\* ------------------------------------------------------- Norm: the count ----
\* the largest n of any call of h at any window, 0 for no call
LargestN(h) ==
    IF h = <<>> THEN Zero
    ELSE CHOOSE m \in {h[k].n.val[r] : k \in 1 .. Len(h), r \in DOMAIN h[1].n.val} :
            \A k \in 1 .. Len(h), r \in DOMAIN h[1].n.val : RGeq(m, h[k].n.val[r])
\* the count of a is nowhere below the count of b
CountAtLeast(a, b) ==
    \A r \in DOMAIN a.num_tracked_values.val :
        RGeq(a.num_tracked_values.val[r], b.num_tracked_values.val[r])

\* C19: the count of a tracking Norm is, at every retained position, the sum
\* of the n of the accumulating calls since construction or the last reset;
\* it is not negative, it stays below n_freeze plus the largest n of those
\* calls, and no operation but a reset lowers it
C19_CountLaw ==
    /\ [](norm.track_running_stats =>
            /\ \A r \in DOMAIN norm.num_tracked_values.val :
                  /\ norm.num_tracked_values.val[r] = CountSum(hist, r)
                  /\ RGeq(norm.num_tracked_values.val[r], Zero)
            /\ norm.n_freeze # None =>
                  RLess(MaxOf(norm.num_tracked_values),
                        RAdd(Num(norm.n_freeze[1]), LargestN(hist))))
    /\ [][(norm.track_running_stats
             /\ op' \notin {"reset_running_stats", "reset_parameters"})
          => CountAtLeast(norm', norm)]_vars
\* the call that brought the largest count from below the threshold to above
\* it: a second accumulating call of a Norm that is frozen afterwards
C19_CrossingCall ==
    /\ op = "forward"
    /\ norm.track_running_stats
    /\ norm.n_freeze # None
    /\ Len(hist) = 2
    /\ RLess(Zero, hist[1].n.val[<<0, 0, 0>>])
    /\ RLess(Num(norm.n_freeze[1]), MaxOf(norm.num_tracked_values))

\* ------------------------------------- ConditionedNorm: valid positions ----
\* the shared scale and shift still hold their initial values 1 and 0
InitialAffine(self) ==
    /\ self.learnable_scale = Full(self.learnable_scale.shape, One)
    /\ self.learnable_shift = Full(self.learnable_shift.shape, Zero)
\* position i of the batch lies below the length the caller gave for its row
ValidFor(seq_len, i) == i[3] < seq_len[i[1] + 1]

\* C20: after a forward call of a ConditionedNorm with a length vector and
\* the shared scale at one and shift at zero, the output at every position
\* t < length[i] of row i is the value the normalizer of conditions[i]
\* produced there (x before the shared affine step)
C20_ValidDataKept ==
    (op = "cond_forward" /\ len_in # None /\ InitialAffine(cnorm)) =>
        \A i \in DOMAIN out.val :
            ValidFor(len_in, i) => out.val[i] = normed.val[i]
\* C20, where it fails: the first example, of length 2, is masked with the
\* length 1 that sorting by condition has moved to the front, so its valid
\* position 1, where the normalized value is not zero, is zero in the output
C20_ValidDataZeroed ==
    /\ op = "cond_forward" /\ cond_in = <<1, 0, 1>> /\ len_in = <<2, 1, 2>>
    /\ InitialAffine(cnorm)
    /\ \E i \in DOMAIN out.val :
          /\ i[1] = 0 /\ i[3] = 1
          /\ ValidFor(len_in, i)
          /\ normed.val[i] # ZeroV
          /\ out.val[i] = ZeroV

\* ------------------------------- fragment_parallel_signals: random start ----
MaxStep == 3       \* the largest step of a signal
DrawSteps == 6     \* np.random.rand() is drawn from the multiples of 1/DrawSteps

\* min of two floats
RMin(p, q) == IF RLess(q, p) THEN q ELSE p
\* int(q) for q >= 0
Floor(q) == q[1] \div q[2]
\* round(q) for q >= 0: to the nearest integer, a half to the even one
Round(q) ==
    LET f == q[1] \div q[2]
        twice == 2 * (q[1] - f * q[2])
    IN  IF twice < q[2] THEN f
        ELSE IF twice > q[2] THEN f + 1
        ELSE IF f % 2 = 0 THEN f ELSE f + 1
\* the 1e-6 of line 355
Tolerance == Rat(1, 1000000)

\* lines 322-332: max_start after the signals i, i + 1, ...
RECURSIVE MaxStart(_, _, _, _, _, _)
MaxStart(signals, axis, step, max_length, i, max_start) ==
    IF i > Len(signals) THEN max_start
    ELSE MaxStart(signals, axis, step, max_length, i + 1,
                  RMax(RMin(max_start,
                            Rat(signals[i].shape[axis[i] + 1] - max_length[i],
                                step[i])),
                       Zero))

\* lines 335-337: start = int(start * step[i]) / step[i] for the signals
\* i, i + 1, ...
RECURSIVE AdjustStart(_, _, _)
AdjustStart(step, i, start) ==
    IF i > Len(step) THEN start
    ELSE AdjustStart(step, i + 1,
                     Rat(Floor(RMul(start, Num(step[i]))), step[i]))

\* lines 318-337: start for the draw of np.random.rand()
RandomStart(signals, axis, step, max_length, draw) ==
    AdjustStart(step, 1,
                RMul(draw, MaxStart(signals, axis, step, max_length, 1, One)))

\* line 354: start_idx = round(start * step[i])
StartIdxAt(start, step) == Round(RMul(start, Num(step)))
\* line 355: abs(start_idx - start * step[i]) < 1e-6
NearInteger(start, step) ==
    /\ RLess(RSub(Num(StartIdxAt(start, step)), RMul(start, Num(step))), Tolerance)
    /\ RLess(RSub(RMul(start, Num(step)), Num(StartIdxAt(start, step))), Tolerance)

\* lines 341-364: the first assertion of the loop that fails, from signal i
\* on ("none": the loop ends)
RECURSIVE LoopError(_, _, _, _, _, _, _)
LoopError(signals, axis, step, max_length, min_length, start, i) ==
    IF i > Len(signals) THEN "none"
    ELSE IF ~(axis[i] < Dim(signals[i])) THEN "ax < x.ndim"
    ELSE IF ~(max_length[i] >= min_length[i]) THEN "max_len >= min_len"
    ELSE IF ~NearInteger(start, step[i]) THEN "start_idx"
    ELSE LoopError(signals, axis, step, max_length, min_length, start, i + 1)

\* lines 365-366 on the list the loop has built from start
FragmentReturnFrom(fragmented_signals, start) ==
    IF SameNumber(fragmented_signals)
    THEN [start |-> start, error |-> "none", fragments |-> fragmented_signals]
    ELSE [start |-> start, error |-> "len(set) == 1", fragments |-> <<>>]
\* lines 340-366 with the start of lines 318-339: the local start, the
\* assertion that failed ("none": the call returns) and the returned lists
FragmentFrom(signals, axis, step, max_length, min_length, start, e) ==
    IF e # "none"
    THEN [start |-> start, error |-> e, fragments |-> <<>>]
    ELSE FragmentReturnFrom(
             [i \in 1 .. Len(signals) |->
                 Fragments(signals[i], axis[i], step[i], max_length[i],
                           min_length[i], StartIdxAt(start, step[i]))],
             start)
\* fragment_parallel_signals(..., random_start=True) where np.random.rand()
\* returns draw
FragmentParallelSignalsRandom(signals, axis, step, max_length, min_length, draw) ==
    FragmentFrom(signals, axis, step, max_length, min_length,
                 RandomStart(signals, axis, step, max_length, draw),
                 LoopError(signals, axis, step, max_length, min_length,
                           RandomStart(signals, axis, step, max_length, draw), 1))

\* step, max_length and min_length of one signal, lengths positive
RandomSizes ==
    {[step |-> s, max_length |-> ma, min_length |-> mi] :
        s \in 1 .. MaxStep, ma \in 1 .. MaxFragLen, mi \in 1 .. MaxFragLen}
\* the calls with signals of l1 and l2 samples
RandomArgs(l1, l2) ==
    {[signals |-> <<Signal2D(l1), Signal1D(l2)>>,
      axis |-> <<1, 0>>,
      step |-> <<p1.step, p2.step>>,
      max_length |-> <<p1.max_length, p2.max_length>>,
      min_length |-> <<p1.min_length, p2.min_length>>,
      random_start |-> TRUE,
      draw |-> Rat(k, DrawSteps)] :
        p1 \in RandomSizes, p2 \in RandomSizes, k \in 0 .. (DrawSteps - 1)}

\* fragment_parallel_signals(signals, axis, step, max_length, min_length,
\* random_start=True); out holds the local start, the failed assertion and
\* the returned lists
DoFragmentRandom ==
    /\ op = "idle"
    /\ \E l1 \in 0 .. MaxSignalLen, l2 \in 0 .. MaxSignalLen :
       \E a \in RandomArgs(l1, l2) :
         /\ frag_in' = a
         /\ \E r \in {FragmentParallelSignalsRandom(a.signals, a.axis, a.step,
                                                     a.max_length, a.min_length,
                                                     a.draw)} :
               /\ raised' = (r.error # "none")
               /\ out' = r
    /\ op' = "fragment_random"
    /\ x_in' = NoneT
    /\ len_in' = None
    /\ UNCHANGED <<norm, training, calls, hist, mask_in, cnorm, cond_in, ctor,
                   normed>>

NextRandomStart ==
    \/ Return
    \/ DoFragmentRandom

SpecRandomStart == InitFragment /\ [][NextRandomStart]_vars

\* start * step is an integer
IntegerIndex(start, step) == RMul(start, Num(step))[2] = 1

\* C21: after a call with random_start enabled, whatever the signals, the
\* steps and the draw, the adjusted start is an integer sample index in every
\* signal and the assertion on start_idx has not failed
C21_IntegralStart ==
    op = "fragment_random" =>
        /\ \A i \in Signals(frag_in) : IntegerIndex(out.start, frag_in.step[i])
        /\ out.error # "start_idx"
\* C21, where it fails: steps 2 and 3, a draw of at least one half: start is
\* adjusted to 1/2 for the first signal and then to 1/3 for the second, and
\* 1/3 * 2 is no index of the first signal
C21_NonMultipleSteps ==
    /\ op = "fragment_random"
    /\ frag_in.step = <<2, 3>>
    /\ out.start = Rat(1, 3)
    /\ out.error = "start_idx"


====
